---- MODULE Spec2Model ----
(***************************************************************************)
(* Model of the useless-test-detector engine (index.ts): the file locator  *)
(* findTestFiles, the per-file analysis analyzeTestFile with its seven     *)
(* regular-expression detectors and the confidence scorer, and the suite   *)
(* scanner detectUselessTests.                                             *)
(*                                                                         *)
(* Strings are TLA+ strings: paths and file lines are the text the code    *)
(* sees.  Regular expressions are syntax trees interpreted by a            *)
(* backtracking matcher with JavaScript's priorities (alternatives left to *)
(* right, greedy repetition), so that RegExp.prototype.test, its lastIndex *)
(* state under the g flag, and String.prototype.match counts are computed  *)
(* rather than assumed.                                                    *)
(***************************************************************************)
EXTENDS Integers, Sequences, FiniteSets, TLC

VARIABLES
    fs,            \* the filesystem snapshot: path -> node
    testPatterns,  \* the RegExp[] object the caller passes (lastIndex is state)
    call,          \* the last call made: operation and arguments
    ret            \* what the last call returned, or that it threw

vars == <<fs, testPatterns, call, ret>>

\* Bounds of the model
MaxEntries == 3   \* entries under the root, locator runs
MaxFiles   == 3   \* entries under the root, scanner runs
MaxLines   == 3   \* lines of the analysed file, analysis runs

-----------------------------------------------------------------------------
(* Strings *)

Range(s) == {s[i] : i \in 1..Len(s)}

Chars(str) == {SubSeq(str, i, i) : i \in 1..Len(str)}

\* the n characters of s from offset i (0-based); "" when s does not hold them
Slice(s, i, n) ==
    IF i < 0 \/ n <= 0 \/ i + n > Len(s) THEN "" ELSE SubSeq(s, i + 1, i + n)

\* String.prototype.includes
Includes(s, sub) ==
    \E i \in 0..(Len(s) - Len(sub)) : Slice(s, i, Len(sub)) = sub

RECURSIVE JoinLines(_)
\* the text of a file whose lines are given: lines joined with "\n"
JoinLines(lines) ==
    IF Len(lines) = 0 THEN ""
    ELSE IF Len(lines) = 1 THEN lines[1]
    ELSE lines[1] \o "\n" \o JoinLines(Tail(lines))

\* a followed by the elements of b that a does not hold
Merge(a, b) == a \o SelectSeq(b, LAMBDA x : x \notin Range(a))

-----------------------------------------------------------------------------
(* Regular expressions: syntax trees *)

Node(t, s, cs, neg, xs, min) ==
    [t |-> t, s |-> s, cs |-> cs, neg |-> neg, xs |-> xs, min |-> min]

Lit(s)        == Node("lit", s, {}, FALSE, <<>>, 0)    \* literal text
OneOf(cs)     == Node("set", "", cs, FALSE, <<>>, 0)   \* [...]
NoneOf(cs)    == Node("set", "", cs, TRUE, <<>>, 0)    \* [^...]
Cat(xs)       == Node("seq", "", {}, FALSE, xs, 0)     \* concatenation
Alt(xs)       == Node("alt", "", {}, FALSE, xs, 0)     \* a|b|c
Star(x)       == Node("rep", "", {}, FALSE, <<x>>, 0)  \* x*
Plus(x)       == Node("rep", "", {}, FALSE, <<x>>, 1)  \* x+
Opt(x)        == Node("opt", "", {}, FALSE, <<x>>, 0)  \* x?
NotBehind(s)  == Node("nlb", s, {}, FALSE, <<>>, 0)    \* (?<!s)
LineStart     == Node("bol", "", {}, FALSE, <<>>, 0)   \* ^ under the m flag
InputEnd      == Node("eol", "", {}, FALSE, <<>>, 0)   \* $ without the m flag

WordChars ==
    Chars("abcdefghijklmnopqrstuvwxyzABCDEFGHIJKLMNOPQRSTUVWXYZ0123456789_")
SpaceChars == {" ", "\t", "\n", "\r"}

Word     == OneOf(WordChars)      \* \w
Space    == OneOf(SpaceChars)     \* \s
AnyChar  == NoneOf({"\n", "\r"})  \* .
Quote    == OneOf({"'", "\""})    \* ['"]

RECURSIVE Ends(_, _, _), SeqEnds(_, _, _, _), RepEnds(_, _, _, _)

\* The offsets at which a match of x that starts at offset i of s can end, in
\* the order the backtracking matcher tries them: the first is the one taken.
Ends(x, s, i) ==
    CASE x.t = "lit" -> IF Slice(s, i, Len(x.s)) = x.s THEN <<i + Len(x.s)>> ELSE <<>>
      [] x.t = "set" -> IF i < Len(s) /\ ((Slice(s, i, 1) \in x.cs) # x.neg)
                        THEN <<i + 1>> ELSE <<>>
      [] x.t = "seq" -> SeqEnds(x.xs, 1, s, i)
      [] x.t = "alt" ->
            LET acc[n \in 0..Len(x.xs)] ==
                    IF n = 0 THEN <<>> ELSE Merge(acc[n - 1], Ends(x.xs[n], s, i))
            IN  acc[Len(x.xs)]
      [] x.t = "rep" -> RepEnds(x.xs[1], x.min, s, i)
      [] x.t = "opt" -> Merge(Ends(x.xs[1], s, i), <<i>>)
      [] x.t = "nlb" -> IF i >= Len(x.s) /\ Slice(s, i - Len(x.s), Len(x.s)) = x.s
                        THEN <<>> ELSE <<i>>
      [] x.t = "bol" -> IF i = 0 \/ Slice(s, i - 1, 1) = "\n" THEN <<i>> ELSE <<>>
      [] x.t = "eol" -> IF i = Len(s) THEN <<i>> ELSE <<>>

SeqEnds(xs, k, s, i) ==
    IF k > Len(xs) THEN <<i>>
    ELSE LET js == Ends(xs[k], s, i)
             acc[n \in 0..Len(js)] ==
                 IF n = 0 THEN <<>> ELSE Merge(acc[n - 1], SeqEnds(xs, k + 1, s, js[n]))
         IN  IF js = <<>> THEN <<>> ELSE acc[Len(js)]

\* Greedy repetition, at least min times, of a pattern x that takes one
\* character (every repetition in the code's patterns is of that kind): the
\* longest run first, then each shorter one down to min.
RepEnds(x, min, s, i) ==
    LET ok(k) == Ends(x, s, k) = <<k + 1>>
        run == CHOOSE n \in 0..(Len(s) - i) :
                   /\ \A k \in 0..(n - 1) : ok(i + k)
                   /\ n = Len(s) - i \/ ~ok(i + n)
    IN  IF i > Len(s) \/ run < min THEN <<>>
        ELSE [k \in 1..(run - min + 1) |-> i + run - (k - 1)]

NoMatch == [found |-> FALSE, index |-> 0, end |-> 0]

\* the match of x in s that starts at the least of the offsets starts
FirstMatch(x, s, starts) ==
    IF starts = {} THEN NoMatch
    ELSE LET first == CHOOSE k \in starts : \A m \in starts : k <= m
         IN  [found |-> TRUE, index |-> first, end |-> Head(Ends(x, s, first))]

\* The leftmost match of x in s that starts at offset from or later.
Exec(x, s, from) ==
    FirstMatch(x, s, {k \in from..Len(s) : Ends(x, s, k) # <<>>})

\* String.prototype.match(x) for x without the g flag, used as a truth value
Matches(x, s) == Exec(x, s, 0).found

RECURSIVE CountFrom(_, _, _), CountAfter(_, _, _)
\* the matches of x in s from offset from on, one after the other; after an
\* empty match the search moves on by one character
CountFrom(x, s, from) ==
    IF from > Len(s) THEN 0 ELSE CountAfter(x, s, Exec(x, s, from))

\* the count, m being the next match
CountAfter(x, s, m) ==
    IF ~m.found THEN 0
    ELSE 1 + CountFrom(x, s, IF m.end = m.index THEN m.end + 1 ELSE m.end)

\* String.prototype.match(x) for x with the g flag: the number of matches
\* (null counts as 0)
MatchCount(x, s) == CountFrom(x, s, 0)

\* A RegExp object: its pattern, its g flag and its lastIndex.
RegExp(x, global) == [re |-> x, global |-> global, lastIndex |-> 0]

\* the result of test and the object afterwards, m being what the search from
\* the start offset found
Tested(r, m) ==
    [matched |-> m.found,
     regexp  |-> IF r.global
                 THEN [r EXCEPT !.lastIndex = IF m.found THEN m.end ELSE 0]
                 ELSE r]

\* RegExp.prototype.test: the result and the object afterwards.  Under the g
\* flag the search starts at lastIndex, a match leaves lastIndex at its end and
\* a failure resets it to 0.
RegExpTest(r, s) ==
    Tested(r, Exec(r.re, s, IF r.global THEN r.lastIndex ELSE 0))

RECURSIVE SomeFrom(_, _, _), SomeAfter(_, _, _, _)
\* some() from the k-th pattern on
SomeFrom(patterns, k, item) ==
    IF k > Len(patterns) THEN [matched |-> FALSE, patterns |-> patterns]
    ELSE SomeAfter(patterns, k, item, RegExpTest(patterns[k], item))

\* some() after the test t of the k-th pattern
SomeAfter(patterns, k, item, t) ==
    IF t.matched
    THEN [matched |-> TRUE, patterns |-> [patterns EXCEPT ![k] = t.regexp]]
    ELSE SomeFrom([patterns EXCEPT ![k] = t.regexp], k + 1, item)

\* patterns.some(pattern => pattern.test(item)): stops at the first match
SomeTest(patterns, item) == SomeFrom(patterns, 1, item)

-----------------------------------------------------------------------------
(* The filesystem: readdirSync, statSync, readFileSync *)

\* A node of the snapshot.  items: a directory's entries in the order
\* readdirSync lists them; lines: a file's text, line by line.
File(lines)  == [kind |-> "file", items |-> <<>>, lines |-> lines, readable |-> TRUE]
NoAccess     == [kind |-> "file", items |-> <<>>, lines |-> <<>>, readable |-> FALSE]
Dir          == [kind |-> "dir", items |-> <<>>, lines |-> <<>>, readable |-> TRUE]
LockedDir    == [kind |-> "dir", items |-> <<>>, lines |-> <<>>, readable |-> FALSE]
\* a symbolic link whose target is gone: listed by readdirSync, ENOENT on statSync
Dangling     == [kind |-> "dangling", items |-> <<>>, lines |-> <<>>, readable |-> FALSE]

\* path.join(dir, item) for a dir without a trailing separator
join(dir, item) == dir \o "/" \o item

\* readdirSync(dir) throws: ENOENT, ENOTDIR or EACCES
ReaddirThrows(f, dir) ==
    dir \notin DOMAIN f \/ f[dir].kind # "dir" \/ ~f[dir].readable

\* statSync(path) throws: ENOENT (statSync follows links)
StatThrows(f, path) == path \notin DOMAIN f \/ f[path].kind = "dangling"

\* readFileSync(path, 'utf-8') throws: ENOENT, EISDIR or EACCES
ReadFileThrows(f, path) ==
    path \notin DOMAIN f \/ f[path].kind # "file" \/ ~f[path].readable

-----------------------------------------------------------------------------
(* findTestFiles *)

TestExts ==
    Alt(<<Lit("ts"), Lit("tsx"), Lit("js"), Lit("jsx"), Lit("mjs"), Lit("cjs")>>)

\* /\.(test|spec)\.(ts|tsx|js|jsx|mjs|cjs)$/
DEFAULT_TEST_PATTERNS ==
    <<RegExp(Cat(<<Lit("."), Alt(<<Lit("test"), Lit("spec")>>), Lit("."),
                   TestExts, InputEnd>>), FALSE)>>

\* stat.isDirectory() && !item.includes('node_modules') && !item.includes('dist')
Descends(f, fullPath, item) ==
    /\ f[fullPath].kind = "dir"
    /\ ~Includes(item, "node_modules")
    /\ ~Includes(item, "dist")

RECURSIVE findTestFiles(_, _, _), ScanItems(_, _, _, _, _, _),
          PushFound(_, _, _, _, _, _), PushIfMatched(_, _, _, _, _, _)

\* The loop over items, from the i-th on.  An exception of statSync leaves
\* the loop for the catch block: what was pushed so far is returned.
ScanItems(f, dir, items, i, files, patterns) ==
    IF i > Len(items) THEN [files |-> files, patterns |-> patterns]
    ELSE LET item == items[i]
             fullPath == join(dir, item)
         IN  IF StatThrows(f, fullPath)
             THEN [files |-> files, patterns |-> patterns]
             ELSE IF Descends(f, fullPath, item)
             THEN PushFound(f, dir, items, i, files,
                            findTestFiles(f, fullPath, patterns))
             ELSE PushIfMatched(f, dir, items, i, files, SomeTest(patterns, item))

\* files.push(...findTestFiles(fullPath, patterns)), and the loop goes on
PushFound(f, dir, items, i, files, sub) ==
    ScanItems(f, dir, items, i + 1, files \o sub.files, sub.patterns)

\* files.push(fullPath) when a pattern matched, and the loop goes on
PushIfMatched(f, dir, items, i, files, t) ==
    ScanItems(f, dir, items, i + 1,
              IF t.matched THEN Append(files, join(dir, items[i])) ELSE files,
              t.patterns)

\* findTestFiles(dir, patterns): the files found, and the pattern objects as
\* the calls of test() leave them.
findTestFiles(f, dir, patterns) ==
    IF ReaddirThrows(f, dir) THEN [files |-> <<>>, patterns |-> patterns]
    ELSE ScanItems(f, dir, f[dir].items, 1, <<>>, patterns)

-----------------------------------------------------------------------------
(* analyzeTestFile: the patterns *)

\* /^\s*(function|class|const)\s+\w+(Buffer|Parser|Handler|Helper|Manager|Service|Client|Builder|Strategy)/gm
InlineImplementationRe ==
    Cat(<<LineStart, Star(Space),
          Alt(<<Lit("function"), Lit("class"), Lit("const")>>),
          Plus(Space), Plus(Word),
          Alt(<<Lit("Buffer"), Lit("Parser"), Lit("Handler"), Lit("Helper"),
                Lit("Manager"), Lit("Service"), Lit("Client"), Lit("Builder"),
                Lit("Strategy")>>)>>)

\* /import type|interface \w+|type \w+ =/
TypeImportRe ==
    Alt(<<Lit("import type"),
          Cat(<<Lit("interface "), Plus(Word)>>),
          Cat(<<Lit("type "), Plus(Word), Lit(" =")>>)>>)

\* /render\(|renderHook\(|new \w+\(|\.toHaveBeenCalled/
RuntimeTestRe ==
    Alt(<<Lit("render("), Lit("renderHook("),
          Cat(<<Lit("new "), Plus(Word), Lit("(")>>),
          Lit(".toHaveBeenCalled")>>)

\* /const \w+:\s*\w+\s*=\s*\{[^}]+\};\s+expect\(\w+\.\w+\)/g
MockAssertionRe ==
    Cat(<<Lit("const "), Plus(Word), Lit(":"), Star(Space), Plus(Word),
          Star(Space), Lit("="), Star(Space), Lit("{"), Plus(NoneOf({"}"})),
          Lit("};"), Plus(Space), Lit("expect("), Plus(Word), Lit("."),
          Plus(Word), Lit(")")>>)

\* /from ['"]\.\.+(\/[^'"]*)?(?<!\.test)(?<!\.spec)['"]/
SourceImportRe ==
    Cat(<<Lit("from "), Quote, Lit("."), Plus(Lit(".")),
          Opt(Cat(<<Lit("/"), Star(NoneOf({"'", "\""}))>>)),
          NotBehind(".test"), NotBehind(".spec"), Quote>>)

\* /[/\\](integration|e2e)\.test\.(ts|tsx|js|jsx|mjs|cjs)$/
IntegrationTestRe ==
    Cat(<<OneOf({"/", "\\"}), Alt(<<Lit("integration"), Lit("e2e")>>),
          Lit(".test."), TestExts, InputEnd>>)

\* /expect\(typeof|expect\(.*\)\.toBe\(['"](?:string|number|boolean)/g
BuiltinExpectRe ==
    Alt(<<Lit("expect(typeof"),
          Cat(<<Lit("expect("), Star(AnyChar), Lit(").toBe("), Quote,
                Alt(<<Lit("string"), Lit("number"), Lit("boolean")>>)>>)>>)

\* /expect\(/g
ExpectRe == Lit("expect(")

\* /fetch\(|request\(|axios\.|supertest/
FetchRe == Alt(<<Lit("fetch("), Lit("request("), Lit("axios."), Lit("supertest")>>)

\* /render\(/
RenderRe == Lit("render(")

-----------------------------------------------------------------------------
(* analyzeTestFile: the detectors and the verdict *)

\* what a call can give besides a record: an exception, or null
Threw == [tag |-> "throw"]
Null  == [tag |-> "null"]

\* What the patterns find in the text of a file: the values the code holds
\* in its constants of the same names.
Matched(content) ==
    [inlineImplementations |-> MatchCount(InlineImplementationRe, content),
     hasTypeImports        |-> Matches(TypeImportRe, content),
     hasRuntimeTests       |-> Matches(RuntimeTestRe, content),
     mockAssertions        |-> MatchCount(MockAssertionRe, content),
     hasSourceImports      |-> Matches(SourceImportRe, content),
     hasTestingLibImports  |-> Includes(content, "@testing-library"),
     admits                |-> \/ Includes(content, "In a real test")
                               \/ Includes(content, "would be actual"),
     testsBuiltins         |-> MatchCount(BuiltinExpectRe, content),
     totalExpects          |-> MatchCount(ExpectRe, content),
     hasFetch              |-> Matches(FetchRe, content),
     hasRender             |-> Matches(RenderRe, content),
     \* content.split('\n').length
     lines                 |-> MatchCount(Lit("\n"), content) + 1]

isIntegrationTest(filePath) == Matches(IntegrationTestRe, filePath)

\* Anti-pattern 1
InlineReason(m) ==
    IF m.inlineImplementations > 0
    THEN <<"Defines " \o ToString(m.inlineImplementations)
             \o " inline implementation(s) instead of importing real ones">>
    ELSE <<>>

\* Anti-pattern 2
TypeOnlyReason(m) ==
    IF m.hasTypeImports /\ ~m.hasRuntimeTests
    THEN <<"Appears to test TypeScript types, not runtime behavior">>
    ELSE <<>>

\* Anti-pattern 3
MockReason(m) ==
    IF m.mockAssertions > 3
    THEN <<"Creates " \o ToString(m.mockAssertions)
             \o " mock objects and asserts on hardcoded values">>
    ELSE <<>>

\* Anti-pattern 4
NoSourceImportReason(m, filePath) ==
    IF m.hasTestingLibImports /\ ~m.hasSourceImports /\ ~isIntegrationTest(filePath)
    THEN <<"No imports from actual implementation (only test utilities)">>
    ELSE <<>>

\* Anti-pattern 5
AdmissionReason(m) ==
    IF m.admits
    THEN <<"Contains comments admitting these aren't real tests">>
    ELSE <<>>

\* Anti-pattern 6: testsBuiltins.length / totalExpects > 0.5
BuiltinReason(m) ==
    IF m.testsBuiltins > 0 /\ m.totalExpects > 0 /\ 2 * m.testsBuiltins > m.totalExpects
    THEN <<"More than 50% of assertions test JavaScript built-ins (typeof, etc)">>
    ELSE <<>>

\* Anti-pattern 7
FakeIntegrationReason(m, filePath) ==
    IF isIntegrationTest(filePath) /\ ~m.hasFetch /\ ~m.hasRender
    THEN <<"Integration test that never makes HTTP requests or renders components">>
    ELSE <<>>

\* the reasons, in the order the code pushes them
Reasons(m, filePath) ==
    InlineReason(m) \o TypeOnlyReason(m) \o MockReason(m)
        \o NoSourceImportReason(m, filePath) \o AdmissionReason(m)
        \o BuiltinReason(m) \o FakeIntegrationReason(m, filePath)

\* Confidence with the first threshold off by one
ConfidenceAboveThree(reasons) ==
    IF Len(reasons) > 3 THEN "high"
    ELSE IF Len(reasons) >= 2 THEN "medium" ELSE "low"

\* reasons.length >= 3 ? 'high' : reasons.length >= 2 ? 'medium' : 'low'
Confidence(reasons) ==
    IF Len(reasons) >= 3 THEN "high"
    ELSE IF Len(reasons) >= 2 THEN "medium" ELSE "low"

-----------------------------------------------------------------------------
(* The texts of the files, and analyzeTestFile *)

AdmissionLine  == "// In a real test this would hit the API"
InlineLine     == "class MockEventBuffer {}"
TypeLine       == "import type { User } from './types'"
RenderLine     == "render(<App />)"
MockLine       == "const a: A = {x: 1}; expect(a.x); const b: A = {x: 2}; expect(b.x)"
TestingLibLine == "import { screen } from '@testing-library/react'"
SourceLine     == "import { add } from '../src/add'"
TypeofLine     == "expect(typeof x).toBe('string')"
ExpectLine     == "expect(add(1, 2)).toBe(3)"
FetchLine      == "await fetch('/api/checkout')"

\* the lines a file of the analysis runs is written from
Lines ==
    <<"", AdmissionLine, InlineLine, TypeLine, RenderLine, MockLine,
      TestingLibLine, SourceLine, TypeofLine, ExpectLine, FetchLine>>

\* the texts of 1..n of these lines, the lines in the order of the list
Texts(n) ==
    UNION {{[i \in 1..k |-> Lines[ix[i]]] :
               ix \in {jx \in [1..k -> 1..Len(Lines)] :
                          \A i \in 1..(k - 1) : jx[i] <= jx[i + 1]}} :
           k \in 1..n}

\* the texts of the scanner runs: no reason, one, two and three reasons
CleanText   == <<ExpectLine>>
LowText     == <<AdmissionLine>>
LongLowText == <<AdmissionLine, "", "">>
MediumText  == <<AdmissionLine, InlineLine>>
HighText    == <<AdmissionLine, InlineLine, TypeLine>>

ScanTexts == {CleanText, LowText, LongLowText, MediumText, HighText}

\* What the patterns find in the texts of the scanner runs, which meet the
\* same few texts in every state: a function of the text alone, computed once.
MatchedInScanTexts == [text \in ScanTexts |-> Matched(JoinLines(text))]

\* what the patterns find in the file whose lines are given
MatchedIn(lines) ==
    IF lines \in DOMAIN MatchedInScanTexts THEN MatchedInScanTexts[lines]
    ELSE Matched(JoinLines(lines))

\* the verdict without the early return of null
VerdictWithoutNull(filePath, reasons, lineCount) ==
    [tag        |-> "test",
     file       |-> filePath,
     reasons    |-> reasons,
     confidence |-> Confidence(reasons),
     lineCount  |-> lineCount]

\* if (reasons.length === 0) return null; return {file, reasons, confidence,
\* lineCount}
Verdict(filePath, reasons, lineCount) ==
    IF Len(reasons) = 0 THEN Null
    ELSE [tag        |-> "test",
          file       |-> filePath,
          reasons    |-> reasons,
          confidence |-> Confidence(reasons),
          lineCount  |-> lineCount]

\* the body of analyzeTestFile after the read, m being what the patterns
\* find in the content
AnalyzeContent(m, filePath) == Verdict(filePath, Reasons(m, filePath), m.lines)

\* analyzeTestFile(filePath) on the snapshot f
analyzeTestFile(f, filePath) ==
    IF ReadFileThrows(f, filePath) THEN Threw
    ELSE AnalyzeContent(MatchedIn(f[filePath].lines), filePath)

-----------------------------------------------------------------------------
(* detectUselessTests *)

\* const confidenceLevels = { high: 3, medium: 2, low: 1 }
confidenceLevels == [high |-> 3, medium |-> 2, low |-> 1]

\* the filter with > for >=
AboveLevel(confidence, minConfidence) ==
    /\ minConfidence \in DOMAIN confidenceLevels
    /\ confidenceLevels[confidence] > confidenceLevels[minConfidence]

\* confidenceLevels[test.confidence] >= confidenceLevels[minConfidence]: a
\* level that is no key of the table has no rank (undefined, or an inherited
\* property that is no number), and the comparison with it is false
AtLeast(confidence, minConfidence) ==
    /\ minConfidence \in DOMAIN confidenceLevels
    /\ confidenceLevels[confidence] >= confidenceLevels[minConfidence]

\* the comparator with the line counts the other way round
CompareShortFirst(a, b) ==
    LET confidenceDiff == confidenceLevels[b.confidence] - confidenceLevels[a.confidence]
    IN  IF confidenceDiff # 0 THEN confidenceDiff ELSE a.lineCount - b.lineCount

\* the comparator of the sort: negative when a goes first
Compare(a, b) ==
    LET confidenceDiff == confidenceLevels[b.confidence] - confidenceLevels[a.confidence]
    IN  IF confidenceDiff # 0 THEN confidenceDiff ELSE b.lineCount - a.lineCount

\* x put into the sorted sequence after every element that does not go after it
Insert(sorted, x) ==
    LET k == Cardinality({i \in 1..Len(sorted) : Compare(sorted[i], x) <= 0})
    IN  SubSeq(sorted, 1, k) \o <<x>> \o SubSeq(sorted, k + 1, Len(sorted))

\* Array.prototype.sort with the comparator: a stable sort
Sort(tests) ==
    LET acc[n \in 0..Len(tests)] ==
            IF n = 0 THEN <<>> ELSE Insert(acc[n - 1], tests[n])
    IN  acc[Len(tests)]

RECURSIVE AllFrom(_, _, _, _, _), PushAll(_, _, _, _, _)
\* the loop over directories, from the n-th on
AllFrom(f, directories, n, allTestFiles, patterns) ==
    IF n > Len(directories) THEN [files |-> allTestFiles, patterns |-> patterns]
    ELSE PushAll(f, directories, n, allTestFiles,
                 findTestFiles(f, directories[n], patterns))

\* allTestFiles.push(...findTestFiles(dir, testPatterns)), and the loop goes on
PushAll(f, directories, n, allTestFiles, found) ==
    AllFrom(f, directories, n + 1, allTestFiles \o found.files, found.patterns)

\* the loop over directories: every root's files, one after the other
AllTestFiles(f, directories, patterns) == AllFrom(f, directories, 1, <<>>, patterns)

\* .filter(test => confidenceLevels[test.confidence] >= minLevel)
FilterByConfidence(suspicious, minConfidence) ==
    SelectSeq(suspicious, LAMBDA test : AtLeast(test.confidence, minConfidence))

\* .filter(result => result !== null), the filter by confidence and the sort
Report(analyzed, minConfidence) ==
    IF \E i \in 1..Len(analyzed) : analyzed[i] = Threw
    THEN Threw
    ELSE [tag   |-> "ok",
          value |-> Sort(FilterByConfidence(
                             SelectSeq(analyzed, LAMBDA result : result # Null),
                             minConfidence))]

\* allTestFiles.map(analyzeTestFile) and what follows, all being the files
\* found and the pattern objects after the search
MapAnalyze(f, all, minConfidence) ==
    [result   |-> Report([i \in 1..Len(all.files) |-> analyzeTestFile(f, all.files[i])],
                         minConfidence),
     patterns |-> all.patterns]

\* detectUselessTests({directories, minConfidence, testPatterns}) on the
\* snapshot f: what it returns or that it threw, and the pattern objects
\* afterwards.  An exception of analyzeTestFile inside map() is not caught.
detectUselessTests(f, directories, minConfidence, patterns) ==
    MapAnalyze(f, AllTestFiles(f, directories, patterns), minConfidence)

-----------------------------------------------------------------------------
(* cli.ts *)

RECURSIVE Split(_, _)
\* String.prototype.split(sep) for a one-character sep
Split(s, sep) ==
    LET at == {i \in 0..(Len(s) - 1) : Slice(s, i, 1) = sep}
    IN  IF at = {} THEN <<s>>
        ELSE LET i == CHOOSE j \in at : \A m \in at : j <= m
             IN  <<Slice(s, 0, i)>> \o Split(Slice(s, i + 1, Len(s) - i - 1), sep)

CliDefaults ==
    [directories |-> <<"src", "api">>, minConfidence |-> "low",
     jsonOutput |-> FALSE, help |-> FALSE]

RECURSIVE ParseArgs(_, _, _)
\* the argument loop, from args[i] on (1-based here); --help exits at once
ParseArgs(args, i, opts) ==
    LET has(k) == k <= Len(args) /\ args[k] # ""
    IN  IF i > Len(args) \/ opts.help THEN opts
        ELSE IF args[i] = "--dirs" /\ has(i + 1)
        THEN ParseArgs(args, i + 2, [opts EXCEPT !.directories = Split(args[i + 1], ",")])
        ELSE IF args[i] = "--min-confidence" /\ has(i + 1)
        THEN ParseArgs(args, i + 2, [opts EXCEPT !.minConfidence = args[i + 1]])
        ELSE IF args[i] = "--json"
        THEN ParseArgs(args, i + 1, [opts EXCEPT !.jsonOutput = TRUE])
        ELSE IF args[i] = "--help" \/ args[i] = "-h"
        THEN [opts EXCEPT !.help = TRUE]
        ELSE ParseArgs(args, i + 1, opts)

\* process.exit(results.length > 0 ? 1 : 0) after the output; an exception of
\* detectUselessTests ends the process before
Exit(out) ==
    IF out = Threw THEN Threw
    ELSE [tag |-> "exit", code |-> IF Len(out.value) > 0 THEN 1 ELSE 0,
          value |-> out.value]

\* the script after the argument loop
Run(f, opts) ==
    IF opts.help THEN [tag |-> "exit", code |-> 0, value |-> <<>>]
    ELSE Exit(detectUselessTests(f, opts.directories, opts.minConfidence,
                                 DEFAULT_TEST_PATTERNS).result)

\* the run of the command: the exit code and the results it printed
Cli(f, args) == Run(f, ParseArgs(args, 1, CliDefaults))

-----------------------------------------------------------------------------
(* Snapshots of the filesystem *)

\* the root src exists and is empty; the root api does not exist
EmptyRoot == [p \in {"src"} |-> Dir]

Entry(name, node) == [name |-> name, node |-> node]

\* f with one more entry, listed last in its directory
AddEntry(f, dir, e) ==
    [p \in DOMAIN f \cup {join(dir, e.name)} |->
        IF p = join(dir, e.name) THEN e.node
        ELSE IF p = dir THEN [f[dir] EXCEPT !.items = Append(@, e.name)]
        ELSE f[p]]

\* the snapshots f grows into by one entry from the catalogue
Grown(f, catalogue) ==
    {AddEntry(f, dir, e) :
        <<dir, e>> \in {x \in (DOMAIN f) \X catalogue :
                          /\ ~ReaddirThrows(f, x[1])
                          /\ join(x[1], x[2].name) \notin DOMAIN f}}

RECURSIVE Snapshots(_, _)
\* every snapshot of at most n entries drawn from the catalogue
Snapshots(catalogue, n) ==
    IF n = 0 THEN {EmptyRoot}
    ELSE LET S == Snapshots(catalogue, n - 1)
         IN  S \cup UNION {Grown(f, catalogue) : f \in S}

\* what the locator runs meet: test files, other files, a dangling link,
\* directories the locator enters, excluded directories, and a directory it
\* cannot list
LocatorCatalogue ==
    {Entry("a.test.ts", File(<<"">>)), Entry("util.ts", File(<<"">>)),
     Entry("stale.spec.js", Dangling),
     Entry("lib", Dir), Entry("node_modules", Dir), Entry("dist.test.ts", Dir),
     Entry("private", LockedDir)}

\* what the scanner runs meet: files of every verdict, a file without a
\* reason, and a file that cannot be read
ScanCatalogue ==
    {Entry("a.test.ts", File(HighText)), Entry("a.test.ts", File(LowText)),
     Entry("b.spec.js", File(LongLowText)),
     Entry("c.test.ts", File(MediumText)), Entry("c.test.ts", File(CleanText)),
     Entry("gone.test.ts", NoAccess)}

AnalyzeNames ==
    {"a.test.ts", "checkout.integration.test.ts", "integration.test.ts"}

\* The RegExp[] a caller passes: the default, or its own.
\* /\.test\.ts$/g
OwnGlobalPatterns == <<RegExp(Cat(<<Lit(".test.ts"), InputEnd>>), TRUE)>>
\* /\.test\.ts$/
OwnPatterns == <<RegExp(Cat(<<Lit(".test.ts"), InputEnd>>), FALSE)>>

PatternChoices == {DEFAULT_TEST_PATTERNS, OwnPatterns, OwnGlobalPatterns}
ScanPatternChoices == {DEFAULT_TEST_PATTERNS, OwnGlobalPatterns}

-----------------------------------------------------------------------------
(* The state machine *)

NoCall == [op |-> "none"]
NoRet  == [tag |-> "none"]

DirectoryLists == {<<"src">>, <<"api", "src">>, <<"src", "src">>}
Levels == {"high", "medium", "low", "HIGH"}
ArgLists ==
    {<<>>, <<"--help">>, <<"--dirs", "src", "--min-confidence", "high">>,
     <<"--json", "--min-confidence", "HIGH">>}

\* a call of findTestFiles(dir, testPatterns)
FindTestFiles(dir) ==
    \E found \in {findTestFiles(fs, dir, testPatterns)} :
        /\ call' = [op |-> "findTestFiles", dir |-> dir, testPatterns |-> testPatterns]
        /\ ret' = [tag |-> "ok", value |-> found.files]
        /\ testPatterns' = found.patterns
        /\ UNCHANGED fs

\* a call of analyzeTestFile(filePath)
AnalyzeTestFile(filePath) ==
    /\ call' = [op |-> "analyzeTestFile", filePath |-> filePath]
    /\ ret' = analyzeTestFile(fs, filePath)
    /\ UNCHANGED <<fs, testPatterns>>

\* a call of detectUselessTests({directories, minConfidence, testPatterns})
DetectUselessTests(directories, minConfidence) ==
    \E out \in {detectUselessTests(fs, directories, minConfidence, testPatterns)} :
        /\ call' = [op |-> "detectUselessTests", directories |-> directories,
                    minConfidence |-> minConfidence, testPatterns |-> testPatterns]
        /\ ret' = out.result
        /\ testPatterns' = out.patterns
        /\ UNCHANGED fs

\* a run of the command with the arguments args
RunCli(args) ==
    /\ call' = [op |-> "cli", args |-> args]
    /\ ret' = Cli(fs, args)
    /\ UNCHANGED <<fs, testPatterns>>

\* The scanner runs.
Init ==
    /\ fs \in Snapshots(ScanCatalogue, MaxFiles)
    /\ testPatterns \in ScanPatternChoices
    /\ call = NoCall
    /\ ret = NoRet

Next ==
    \/ \E directories \in DirectoryLists, minConfidence \in Levels :
          DetectUselessTests(directories, minConfidence)
    \/ \E args \in ArgLists : RunCli(args)

Spec == Init /\ [][Next]_vars

\* The locator runs.
InitLocator ==
    /\ fs \in Snapshots(LocatorCatalogue, MaxEntries)
    /\ testPatterns \in PatternChoices
    /\ call = NoCall
    /\ ret = NoRet

NextLocator == \E dir \in {"src", "api"} : FindTestFiles(dir)

SpecLocator == InitLocator /\ [][NextLocator]_vars

\* The analysis runs.
InitAnalysis ==
    /\ fs \in {AddEntry(EmptyRoot, "src", Entry(name, File(text))) :
                  name \in AnalyzeNames, text \in Texts(MaxLines)}
    /\ testPatterns = DEFAULT_TEST_PATTERNS
    /\ call = NoCall
    /\ ret = NoRet

NextAnalysis == \E filePath \in DOMAIN fs \ {"src"} : AnalyzeTestFile(filePath)

SpecAnalysis == InitAnalysis /\ [][NextAnalysis]_vars

-----------------------------------------------------------------------------
(* Properties of the scanner runs (Spec) *)

\* the rank of a confidence: high=3, medium=2, low=1
RankOf(confidence) ==
    CASE confidence = "high"   -> 3
      [] confidence = "medium" -> 2
      [] confidence = "low"    -> 1

\* the last call was detectUselessTests and it returned
Returned == call.op = "detectUselessTests" /\ ret.tag = "ok"

\* the files the last call of detectUselessTests enumerated
Enumerated == AllTestFiles(fs, call.directories, call.testPatterns).files

\* the scan with the files that cannot be read left out
ScanSkippingUnreadable(f, directories, minConfidence, patterns) ==
    LET all == AllTestFiles(f, directories, patterns).files
        readable == SelectSeq(all, LAMBDA path : ~ReadFileThrows(f, path))
        analyzed == [i \in 1..Len(readable) |-> analyzeTestFile(f, readable[i])]
        suspicious == SelectSeq(analyzed, LAMBDA result : result # Null)
    IN  [tag |-> "ok", value |-> Sort(FilterByConfidence(suspicious, minConfidence))]

\* C1: a file that was enumerated and cannot be read is skipped:
\* detectUselessTests does not throw, and returns what it would return had the
\* file not been enumerated.
C1_UnreadableFileSkipped ==
    call.op = "detectUselessTests" =>
        ret = ScanSkippingUnreadable(fs, call.directories, call.minConfidence,
                                     call.testPatterns)

\* C2: every record detectUselessTests returns (and the command prints) has a
\* reason, and is of a file in which a detector fires.
C2_NoRecordWithoutReason ==
    (Returned \/ ret.tag = "exit") =>
        \A i \in 1..Len(ret.value) :
            /\ Len(ret.value[i].reasons) > 0
            /\ Reasons(MatchedIn(fs[ret.value[i].file].lines), ret.value[i].file) # <<>>

\* a scan at the lowest level returned records although it enumerated a file
\* without a reason, which is in none of them
C2_Witness ==
    /\ Returned
    /\ call.minConfidence = "low"
    /\ Len(ret.value) > 0
    /\ \E i \in 1..Len(Enumerated) :
          /\ analyzeTestFile(fs, Enumerated[i]) = Null
          /\ \A k \in 1..Len(ret.value) : ret.value[k].file # Enumerated[i]

\* C3: in a returned sequence the confidence rank never increases from one
\* record to the next, and between records of equal rank the line count never
\* increases.
C3_Sorted ==
    Returned =>
        \A i \in 1..(Len(ret.value) - 1) :
            LET a == ret.value[i]
                b == ret.value[i + 1]
            IN  \/ RankOf(a.confidence) > RankOf(b.confidence)
                \/ /\ RankOf(a.confidence) = RankOf(b.confidence)
                   /\ a.lineCount >= b.lineCount

\* a returned sequence that the sort had to reorder, by rank at one place and
\* by line count at another
C3_Witness ==
    /\ Returned
    /\ \E i \in 1..(Len(ret.value) - 1) :
          RankOf(ret.value[i].confidence) > RankOf(ret.value[i + 1].confidence)
    /\ \E i \in 1..(Len(ret.value) - 1) :
          /\ ret.value[i].confidence = ret.value[i + 1].confidence
          /\ ret.value[i].lineCount > ret.value[i + 1].lineCount
    /\ \E i, k \in 1..Len(Enumerated) :
          /\ i < k
          /\ analyzeTestFile(fs, Enumerated[i]) # Null
          /\ analyzeTestFile(fs, Enumerated[k]) # Null
          /\ Compare(analyzeTestFile(fs, Enumerated[i]),
                     analyzeTestFile(fs, Enumerated[k])) > 0

\* the records detectUselessTests returns at a level, from the state the last
\* call started in
RecordsAt(minConfidence) ==
    Range(detectUselessTests(fs, call.directories, minConfidence,
                             call.testPatterns).result.value)

\* C4: for the same filesystem, directories and patterns the records returned
\* at 'high' are among those returned at 'medium', which are among those
\* returned at 'low'; and the records returned at a level are exactly those
\* of 'low' whose rank is at least the rank of the level.
C4_FilterMonotone ==
    Returned =>
        /\ RecordsAt("high") \subseteq RecordsAt("medium")
        /\ RecordsAt("medium") \subseteq RecordsAt("low")
        /\ \A level \in {"high", "medium", "low"} :
              RecordsAt(level) =
                  {r \in RecordsAt("low") : RankOf(r.confidence) >= RankOf(level)}
        /\ call.minConfidence \in {"high", "medium", "low"} =>
              Range(ret.value) =
                  {r \in RecordsAt("low") :
                      RankOf(r.confidence) >= RankOf(call.minConfidence)}

\* a scan at 'medium' that returned records and left others out, where the
\* three levels give three different sets
C4_Witness ==
    /\ Returned
    /\ call.minConfidence = "medium"
    /\ Range(ret.value) # {}
    /\ RecordsAt("high") # {}
    /\ RecordsAt("high") # RecordsAt("medium")
    /\ RecordsAt("medium") # RecordsAt("low")

\* C9: a second call of detectUselessTests with the same options on the
\* unchanged filesystem returns what the first returned.
C9_SecondCallAgrees ==
    [][(/\ call.op = "detectUselessTests"
        /\ call'.op = "detectUselessTests"
        /\ call'.directories = call.directories
        /\ call'.minConfidence = call.minConfidence
        /\ fs' = fs)
       => ret' = ret]_vars

\* C10: with a minConfidence that is none of high, medium and low,
\* detectUselessTests throws nothing and returns the empty sequence, and so
\* does the command given such a --min-confidence.
C10_UnknownLevelGivesNothing ==
    /\ (call.op = "detectUselessTests"
            /\ call.minConfidence \notin {"high", "medium", "low"})
        => ret = [tag |-> "ok", value |-> <<>>]
    /\ (call.op = "cli"
            /\ ~ParseArgs(call.args, 1, CliDefaults).help
            /\ ParseArgs(call.args, 1, CliDefaults).minConfidence
                   \notin {"high", "medium", "low"})
        => ret = [tag |-> "exit", code |-> 0, value |-> <<>>]

-----------------------------------------------------------------------------
(* Properties of the analysis runs (SpecAnalysis) *)

\* the detectors that fire on the file of the last call of analyzeTestFile
Fired ==
    LET m == MatchedIn(fs[call.filePath].lines)
        p == call.filePath
    IN  {d \in 1..7 :
            CASE d = 1 -> InlineReason(m) # <<>>
              [] d = 2 -> TypeOnlyReason(m) # <<>>
              [] d = 3 -> MockReason(m) # <<>>
              [] d = 4 -> NoSourceImportReason(m, p) # <<>>
              [] d = 5 -> AdmissionReason(m) # <<>>
              [] d = 6 -> BuiltinReason(m) # <<>>
              [] d = 7 -> FakeIntegrationReason(m, p) # <<>>}

\* C5: analyzeTestFile gives no record when no detector fires, and otherwise
\* a record with one reason for each detector that fires, whose confidence is
\* high for three reasons or more, medium for two and low for one.
C5_ConfidenceByCount ==
    call.op = "analyzeTestFile" =>
        LET n == Cardinality(Fired)
        IN  /\ n = 0 => ret = Null
            /\ n > 0 =>
                  /\ ret.tag = "test"
                  /\ Len(ret.reasons) = n
                  /\ ret.confidence = IF n >= 3 THEN "high"
                                      ELSE IF n = 2 THEN "medium" ELSE "low"

\* a record of high confidence with exactly three reasons, one of them of a
\* detector that found four matches
C5_Witness ==
    /\ call.op = "analyzeTestFile"
    /\ ret.tag = "test"
    /\ ret.confidence = "high"
    /\ Len(ret.reasons) = 3
    /\ MatchedIn(fs[call.filePath].lines).mockAssertions = 4
    /\ 3 \in Fired

FakeIntegrationText ==
    "Integration test that never makes HTTP requests or renders components"
NoSourceImportText ==
    "No imports from actual implementation (only test utilities)"

\* C8: for checkout.integration.test.ts with no fetch, request or http-client
\* marker and no render call, analyzeTestFile gives the fake-integration
\* reason; the confidence is low when it is the only reason, and medium when
\* the no-source-import reason is the only other one.
C8_FakeIntegrationFlagged ==
    (/\ call.op = "analyzeTestFile"
     /\ call.filePath = "src/checkout.integration.test.ts"
     /\ ~MatchedIn(fs[call.filePath].lines).hasFetch
     /\ ~MatchedIn(fs[call.filePath].lines).hasRender)
    => /\ ret.tag = "test"
       /\ FakeIntegrationText \in Range(ret.reasons)
       /\ Len(ret.reasons) = 1 => ret.confidence = "low"
       /\ (Len(ret.reasons) = 2 /\ NoSourceImportText \in Range(ret.reasons))
              => ret.confidence = "medium"

-----------------------------------------------------------------------------
(* Properties of the locator runs (SpecLocator) *)

\* the directories a path lies in, and the path itself
Ancestors(path) ==
    {Slice(path, 0, i) : i \in {k \in 1..Len(path) :
                                   k = Len(path) \/ Slice(path, k, 1) = "/"}}

\* the last component of a path
Basename(path) == LET parts == Split(path, "/") IN parts[Len(parts)]

\* a directory whose name contains node_modules or dist
ExcludedDirectory(f, path) ==
    /\ path \in DOMAIN f
    /\ f[path].kind = "dir"
    /\ Includes(Basename(path), "node_modules") \/ Includes(Basename(path), "dist")

\* C6: no path findTestFiles returns is a directory whose name contains
\* node_modules or dist, or lies inside one.
C6_ExcludedDirectoryPruned ==
    call.op = "findTestFiles" =>
        \A i \in 1..Len(ret.value) :
            \A path \in Ancestors(ret.value[i]) : ~ExcludedDirectory(fs, path)

RECURSIVE FindAround(_, _, _), ScanAround(_, _, _, _, _)

\* the locator that goes on with the next entry when statSync fails on one
ScanAround(f, dir, items, i, patterns) ==
    IF i > Len(items) THEN <<>>
    ELSE LET item == items[i]
             fullPath == join(dir, item)
             rest == ScanAround(f, dir, items, i + 1, patterns)
         IN  IF StatThrows(f, fullPath) THEN rest
             ELSE IF Descends(f, fullPath, item)
             THEN FindAround(f, fullPath, patterns) \o rest
             ELSE IF SomeTest(patterns, item).matched
             THEN <<fullPath>> \o rest
             ELSE rest

FindAround(f, dir, patterns) ==
    IF ReaddirThrows(f, dir) THEN <<>>
    ELSE ScanAround(f, dir, f[dir].items, 1, patterns)

\* C7: findTestFiles returns (it never throws); for a root that does not
\* exist or cannot be read it returns the empty list; and a failure on one
\* entry or one sub-directory removes no matching file found elsewhere under
\* the root (stated for patterns without the g flag, whose matches do not
\* depend on the order of the tests).
C7_FailureStaysLocal ==
    call.op = "findTestFiles" =>
        /\ ret.tag = "ok"
        /\ ReaddirThrows(fs, call.dir) => ret.value = <<>>
        /\ (\A k \in 1..Len(call.testPatterns) : ~call.testPatterns[k].global)
              => Range(FindAround(fs, call.dir, call.testPatterns))
                     \subseteq Range(ret.value)

====
